---- MODULE Spec2Model ----
(***************************************************************************)
(* A model of the Pratt parser of kraytos17/interpreter (parser/parser.go) *)
(* over the token kinds of token/token.go.  The parser state (currToken,   *)
(* peekToken, errors and the lexer it reads from) is threaded through one  *)
(* operator per parse function; ParseProg's loop is the state machine.     *)
(***************************************************************************)
EXTENDS Integers, Sequences, FiniteSets, TLC

VARIABLES input, lexerPos, currToken, peekToken, errors, statements, pc, retStmt

vars == <<input, lexerPos, currToken, peekToken, errors, statements, pc, retStmt>>

(***************************************************************************)
(* token/token.go: the token kinds.                                        *)
(***************************************************************************)
ILLEGAL == "ILLEGAL"
EOF == "EOF"
IDENT == "IDENT"
INT == "INT"
ASSIGN == "ASSIGN"
PLUS == "PLUS"
COMMA == "COMMA"
SEMICOLON == "SEMICOLON"
LPAREN == "("
RPAREN == ")"
LBRACE == "{"
RBRACE == "}"
MINUS == "-"
BANG == "!"
ASTERISK == "*"
SLASH == "/"
LT == "<"
GT == ">"
EQ == "=="
NOTEQ == "!="
FUNCTION == "FUNCTION"
LET_ == "LET"
TRUE_ == "TRUE"
FALSE_ == "FALSE"
IF_ == "IF"
ELSE_ == "ELSE"
RETURN == "RETURN"

\* type Token struct { Type; Literal }.  A Go string is modelled as the
\* sequence of its characters.
Token(type, literal) == [Type |-> type, Literal |-> literal]

\* The literal text the lexer attaches to each fixed token kind.
LexLiteral(type) ==
    CASE type = ASSIGN -> <<"=">>
      [] type = PLUS -> <<"+">>
      [] type = COMMA -> <<",">>
      [] type = SEMICOLON -> <<";">>
      [] type = LPAREN -> <<"(">>
      [] type = RPAREN -> <<")">>
      [] type = LBRACE -> <<"{">>
      [] type = RBRACE -> <<"}">>
      [] type = MINUS -> <<"-">>
      [] type = BANG -> <<"!">>
      [] type = ASTERISK -> <<"*">>
      [] type = SLASH -> <<"/">>
      [] type = LT -> <<"<">>
      [] type = GT -> <<">">>
      [] type = EQ -> <<"=", "=">>
      [] type = NOTEQ -> <<"!", "=">>
      [] type = FUNCTION -> <<"f", "n">>
      [] type = LET_ -> <<"l", "e", "t">>
      [] type = TRUE_ -> <<"t", "r", "u", "e">>
      [] type = FALSE_ -> <<"f", "a", "l", "s", "e">>
      [] type = IF_ -> <<"i", "f">>
      [] type = ELSE_ -> <<"e", "l", "s", "e">>
      [] type = RETURN -> <<"r", "e", "t", "u", "r", "n">>
      [] type = EOF -> <<>>
      [] OTHER -> <<"?">>

T(type) == Token(type, LexLiteral(type))
IdTok(name) == Token(IDENT, <<name>>)
IntTok(digits) == Token(INT, digits)

\* The lexer hands out the tokens of the input one call at a time and keeps
\* yielding end-of-input once the input is exhausted.
NextToken(in, pos) ==
    IF pos <= Len(in) THEN in[pos] ELSE [Type |-> EOF, Literal |-> <<>>]
LexerAdvance(in, pos) == IF pos <= Len(in) THEN pos + 1 ELSE pos

(***************************************************************************)
(* parser/parser.go                                                        *)
(***************************************************************************)
LOWEST == 1
EQUALS == 2
GTLT == 3
SUM == 4
PRODUCT == 5
PREFIX == 6
CALL == 7

\* A table that puts `*` and `/` on the level of `+` and `-`.
precedencesNoProduct ==
    [t \in {EQ, NOTEQ, LT, GT, PLUS, MINUS, SLASH, ASTERISK, LPAREN} |->
        CASE t \in {EQ, NOTEQ} -> EQUALS
          [] t \in {LT, GT} -> GTLT
          [] t \in {PLUS, MINUS, SLASH, ASTERISK} -> SUM
          [] t = LPAREN -> CALL]

precedences ==
    [t \in {EQ, NOTEQ, LT, GT, PLUS, MINUS, SLASH, ASTERISK, LPAREN} |->
        CASE t \in {EQ, NOTEQ} -> EQUALS
          [] t \in {LT, GT} -> GTLT
          [] t \in {PLUS, MINUS} -> SUM
          [] t \in {SLASH, ASTERISK} -> PRODUCT
          [] t = LPAREN -> CALL]

\* The tables filled by registerPrefix / registerInfix in New.
prefixParseFns ==
    [t \in {IDENT, INT, BANG, MINUS, TRUE_, FALSE_, LPAREN, IF_, FUNCTION} |->
        CASE t = IDENT -> "parseIdentifier"
          [] t = INT -> "parseIntegerLiteral"
          [] t \in {BANG, MINUS} -> "parsePrefixExpression"
          [] t \in {TRUE_, FALSE_} -> "parseBoolean"
          [] t = LPAREN -> "parseGroupedExpression"
          [] t = IF_ -> "parseIfExpression"
          [] t = FUNCTION -> "parseFunctionLiteral"]

infixParseFns ==
    [t \in {PLUS, MINUS, SLASH, ASTERISK, EQ, NOTEQ, LT, GT, LPAREN} |->
        IF t = LPAREN THEN "parseCallExpression" ELSE "parseInfixExpression"]

\* The parser together with the lexer it owns.  hung records that control has
\* entered a loop whose state no longer changes.
ParserOf(in, pos, curr, peek, errs) ==
    [in |-> in, pos |-> pos, currToken |-> curr, peekToken |-> peek,
     errors |-> errs, hung |-> FALSE]

nextTok(p) ==
    [p EXCEPT !.currToken = p.peekToken,
              !.peekToken = NextToken(p.in, p.pos),
              !.pos = LexerAdvance(p.in, p.pos)]

\* New: an empty error list and two advances.
New(in) ==
    nextTok(nextTok(ParserOf(in, 1, Token("", <<>>), Token("", <<>>), <<>>)))

peekPrecedence(p) ==
    IF p.peekToken.Type \in DOMAIN precedences
    THEN precedences[p.peekToken.Type] ELSE LOWEST

currPrecendence(p) ==
    IF p.currToken.Type \in DOMAIN precedences
    THEN precedences[p.currToken.Type] ELSE LOWEST

currTokenIs(p, t) == p.currToken.Type = t

peekTokenIs(p, t) == p.peekToken.Type = t

\* append(p.errors, message); nothing runs once control is stuck in a loop.
appendError(p, message) ==
    IF p.hung THEN p ELSE [p EXCEPT !.errors = Append(p.errors, message)]

\* fmt.Sprintf("Unexpexted token %s, expected %s", t, p.currToken.Type)
peekError(p, t) ==
    appendError(p, [fmt |-> "Unexpexted token %s, expected %s",
                    args |-> <<t, p.currToken.Type>>])

\* fmt.Sprintf("no prefix parse fn found for %s", t)
noPrefixParseFnError(p, t) ==
    appendError(p, [fmt |-> "no prefix parse fn found for %s", args |-> <<t>>])

\* The outcome of a call: the parser afterwards and the value returned.
R(p, node) == [p |-> p, node |-> node]

expectPeek(p, t) ==
    IF peekTokenIs(p, t) THEN [p |-> nextTok(p), ok |-> TRUE]
    ELSE [p |-> peekError(p, t), ok |-> FALSE]

\* A nil pointer or nil interface value.
Nil == [kind |-> "nil"]

\* A Go slice: nil, or a (possibly empty) sequence of elements.
Slice(elems) == [isNil |-> FALSE, elems |-> elems]
NilSlice == [isNil |-> TRUE, elems |-> <<>>]

(***************************************************************************)
(* strconv.ParseInt(literal, 0, 64) on the digit runs the lexer produces:  *)
(* a leading "0" followed by more digits selects base 8, a digit outside   *)
(* the base is a syntax error and a value above 2^63 - 1 a range error.    *)
(***************************************************************************)
Digits == <<"0", "1", "2", "3", "4", "5", "6", "7", "8", "9">>
IsDigit(c) == \E i \in 1..10 : Digits[i] = c
DigitVal(c) == (CHOOSE i \in 1..10 : Digits[i] = c) - 1

\* 2^63 - 1 in base 10 and the number of base-8 digits of 2^63 - 1.
MaxInt64Digits ==
    <<9, 2, 2, 3, 3, 7, 2, 0, 3, 6, 8, 5, 4, 7, 7, 5, 8, 0, 7>>
MaxInt64OctalLen == 21

RECURSIVE StripZeros(_)
StripZeros(ds) ==
    IF ds # <<>> /\ Head(ds) = 0 THEN StripZeros(Tail(ds)) ELSE ds

RECURSIVE LexLeq(_, _)
LexLeq(a, b) ==
    IF a = <<>> THEN TRUE
    ELSE IF Head(a) # Head(b) THEN Head(a) < Head(b)
    ELSE LexLeq(Tail(a), Tail(b))

RECURSIVE Horner(_, _, _)
Horner(ds, base, acc) ==
    IF ds = <<>> THEN acc ELSE Horner(Tail(ds), base, acc * base + Head(ds))

ParseInt(s) ==
    IF s = <<>> \/ \E i \in 1..Len(s) : ~IsDigit(s[i])
    THEN [ok |-> FALSE, val |-> 0]
    ELSE LET base == IF Len(s) > 1 /\ s[1] = "0" THEN 8 ELSE 10
             body == IF base = 8 THEN Tail(s) ELSE s
             ds == StripZeros([i \in 1..Len(body) |-> DigitVal(body[i])])
             inRange == IF base = 8 THEN Len(ds) <= MaxInt64OctalLen
                        ELSE \/ Len(ds) < Len(MaxInt64Digits)
                             \/ /\ Len(ds) = Len(MaxInt64Digits)
                                /\ LexLeq(ds, MaxInt64Digits)
         IN IF \E i \in 1..Len(ds) : ds[i] >= base
            THEN [ok |-> FALSE, val |-> 0]
            ELSE IF ~inRange THEN [ok |-> FALSE, val |-> 0]
            ELSE [ok |-> TRUE, val |-> Horner(ds, base, 0)]


(***************************************************************************)
(* The parse functions.  Each takes the parser and returns the parser      *)
(* afterwards together with the node (or Nil) it returns.  Inside a        *)
(* definition the steps that follow a call are local operators applied to  *)
(* the call's outcome, written last step first.                            *)
(***************************************************************************)
RECURSIVE parseExpression(_, _)
RECURSIVE parseStatement(_)
RECURSIVE parseBlockStatement(_)

parseIdentifier(p) ==
    R(p, [kind |-> "Identifier", Token |-> p.currToken,
          Value |-> p.currToken.Literal])

parseIntegerLiteral(p) ==
    LET conv == ParseInt(p.currToken.Literal)
    IN IF ~conv.ok
       THEN R(appendError(p, [fmt |-> "could not parse %q as integer",
                              args |-> <<p.currToken.Literal>>]), Nil)
       ELSE R(p, [kind |-> "IntegerLiteral", Token |-> p.currToken,
                  Value |-> conv.val])

parseBoolean(p) ==
    R(p, [kind |-> "Boolean", Token |-> p.currToken,
          Value |-> currTokenIs(p, TRUE_)])

parsePrefixExpression(p) ==
    LET done(right) ==
            R(right.p, [kind |-> "PrefixExpression", Token |-> p.currToken,
                        Operator |-> p.currToken.Literal,
                        Right |-> right.node])
    IN done(parseExpression(nextTok(p), PREFIX))

\* Every operator parses its right operand at its own precedence.
rightPrecedenceUniform(operator, precedence) == precedence

\* The precedence at which parseInfixExpression parses its right operand.
rightPrecedence(operator, precedence) ==
    IF operator = <<"+">> THEN precedence - 1 ELSE precedence

parseInfixExpression(p, left) ==
    LET done(right) ==
            R(right.p, [kind |-> "InfixExpression", Token |-> p.currToken,
                        Operator |-> p.currToken.Literal, Left |-> left,
                        Right |-> right.node])
    IN done(parseExpression(nextTok(p),
                rightPrecedence(p.currToken.Literal, currPrecendence(p))))

parseGroupedExpression(p) ==
    LET closed(expr, close) ==
            IF ~close.ok THEN R(close.p, Nil) ELSE R(close.p, expr.node)
        parsed(expr) == closed(expr, expectPeek(expr.p, RPAREN))
    IN parsed(parseExpression(nextTok(p), LOWEST))

parseIfExpression(p) ==
    LET expr(cond, cons, alt) ==
            [kind |-> "IfExpression", Token |-> p.currToken,
             Condition |-> cond.node, Consequence |-> cons.node,
             Alternative |-> alt]
        withAlternative(cond, cons, alt) ==
            R(alt.p, expr(cond, cons, alt.node))
        elseBrace(cond, cons, brace) ==
            IF ~brace.ok THEN R(brace.p, Nil)
            ELSE withAlternative(cond, cons, parseBlockStatement(brace.p))
        withConsequence(cond, cons) ==
            IF peekTokenIs(cons.p, ELSE_)
            THEN elseBrace(cond, cons, expectPeek(nextTok(cons.p), LBRACE))
            ELSE R(cons.p, expr(cond, cons, Nil))
        openBrace(cond, brace) ==
            IF ~brace.ok THEN R(brace.p, Nil)
            ELSE withConsequence(cond, parseBlockStatement(brace.p))
        closeParen(cond, close) ==
            IF ~close.ok THEN R(close.p, Nil)
            ELSE openBrace(cond, expectPeek(close.p, LBRACE))
        withCondition(cond) == closeParen(cond, expectPeek(cond.p, RPAREN))
        openParen(open) ==
            IF ~open.ok THEN R(open.p, Nil)
            ELSE withCondition(parseExpression(nextTok(open.p), LOWEST))
    IN openParen(expectPeek(p, LPAREN))

\* The identifier parseFunctionParams builds from the current token.
paramIdentifier(p) ==
    [kind |-> "Identifier", Token |-> p.currToken,
     Value |-> p.currToken.Literal]

\* for p.peekTokenIs(token.COMMA) { nextTok; nextTok; append }
RECURSIVE parseFunctionParamsLoop(_, _)
parseFunctionParamsLoop(p, ids) ==
    IF peekTokenIs(p, COMMA)
    THEN parseFunctionParamsLoop(nextTok(nextTok(p)),
             Append(ids, paramIdentifier(nextTok(nextTok(p)))))
    ELSE R(p, ids)

parseFunctionParams(p) ==
    LET closed(ids, close) ==
            IF ~close.ok THEN R(close.p, NilSlice)
            ELSE R(close.p, Slice(ids.node))
        listed(ids) == closed(ids, expectPeek(ids.p, RPAREN))
    IN IF peekTokenIs(p, RPAREN) THEN R(nextTok(p), Slice(<<>>))
       ELSE listed(parseFunctionParamsLoop(nextTok(p),
                       <<paramIdentifier(nextTok(p))>>))

parseFunctionLiteral(p) ==
    LET withBody(params, body) ==
            R(body.p, [kind |-> "FunctionLiteral", Token |-> p.currToken,
                       Params |-> params.node, Body |-> body.node])
        openBrace(params, brace) ==
            IF ~brace.ok THEN R(brace.p, Nil)
            ELSE withBody(params, parseBlockStatement(brace.p))
        withParams(params) == openBrace(params, expectPeek(params.p, LBRACE))
        openParen(open) ==
            IF ~open.ok THEN R(open.p, Nil)
            ELSE withParams(parseFunctionParams(open.p))
    IN openParen(expectPeek(p, LPAREN))

\* for p.peekTokenIs(token.COMMA) { nextTok; nextTok; append(parseExpression) }
RECURSIVE parseCallArgsLoop(_, _)
parseCallArgsLoop(p, args) ==
    LET more(arg) == parseCallArgsLoop(arg.p, Append(args, arg.node))
    IN IF peekTokenIs(p, COMMA)
       THEN more(parseExpression(nextTok(nextTok(p)), LOWEST))
       ELSE R(p, args)

\* An argument list parsed without the early return on `)`.
parseCallArgsNonEmpty(p) ==
    LET closed(args, close) ==
            IF ~close.ok THEN R(close.p, NilSlice)
            ELSE R(close.p, Slice(args.node))
        listed(args) == closed(args, expectPeek(args.p, RPAREN))
        rest(first) == listed(parseCallArgsLoop(first.p, <<first.node>>))
    IN rest(parseExpression(nextTok(p), LOWEST))

parseCallArgs(p) ==
    LET closed(args, close) ==
            IF ~close.ok THEN R(close.p, NilSlice)
            ELSE R(close.p, Slice(args.node))
        listed(args) == closed(args, expectPeek(args.p, RPAREN))
        rest(first) == listed(parseCallArgsLoop(first.p, <<first.node>>))
    IN IF peekTokenIs(p, RPAREN) THEN R(nextTok(p), Slice(<<>>))
       ELSE rest(parseExpression(nextTok(p), LOWEST))

parseCallExpression(p, fn) ==
    LET done(args) ==
            R(args.p, [kind |-> "CallExpression", Token |-> p.currToken,
                       Function |-> fn, Args |-> args.node])
    IN done(parseCallArgs(p))

\* prefix() / infix(leftExp): the call through the handler table.
callPrefix(name, p) ==
    CASE name = "parseIdentifier" -> parseIdentifier(p)
      [] name = "parseIntegerLiteral" -> parseIntegerLiteral(p)
      [] name = "parsePrefixExpression" -> parsePrefixExpression(p)
      [] name = "parseBoolean" -> parseBoolean(p)
      [] name = "parseGroupedExpression" -> parseGroupedExpression(p)
      [] name = "parseIfExpression" -> parseIfExpression(p)
      [] name = "parseFunctionLiteral" -> parseFunctionLiteral(p)

callInfix(name, p, left) ==
    CASE name = "parseInfixExpression" -> parseInfixExpression(p, left)
      [] name = "parseCallExpression" -> parseCallExpression(p, left)

\* The for loop of parseExpression, entered with leftExp's outcome.
RECURSIVE parseExpressionLoop(_, _)
parseExpressionLoop(left, precedence) ==
    IF /\ ~peekTokenIs(left.p, SEMICOLON)
       /\ precedence < peekPrecedence(left.p)
    THEN IF left.p.peekToken.Type \notin DOMAIN infixParseFns
         THEN left
         ELSE parseExpressionLoop(
                  callInfix(infixParseFns[left.p.peekToken.Type],
                            nextTok(left.p), left.node),
                  precedence)
    ELSE left

parseExpression(p, precedence) ==
    IF p.currToken.Type \notin DOMAIN prefixParseFns
    THEN R(noPrefixParseFnError(p, p.currToken.Type), Nil)
    ELSE parseExpressionLoop(callPrefix(prefixParseFns[p.currToken.Type], p),
                             precedence)

parseLetStatement(p) ==
    LET withValue(name, value) ==
            R(IF peekTokenIs(value.p, SEMICOLON) THEN nextTok(value.p)
              ELSE value.p,
              [kind |-> "LetStatement", Token |-> p.currToken,
               Name |-> [kind |-> "Identifier", Token |-> name.p.currToken,
                         Value |-> name.p.currToken.Literal],
               Value |-> value.node])
        assigned(name, assign) ==
            IF ~assign.ok THEN R(assign.p, Nil)
            ELSE withValue(name, parseExpression(nextTok(assign.p), LOWEST))
        named(name) ==
            IF ~name.ok THEN R(name.p, Nil)
            ELSE assigned(name, expectPeek(name.p, ASSIGN))
    IN named(expectPeek(p, IDENT))

\* A scan that also stops on end-of-input.
returnScanGuarded(p) == ~currTokenIs(p, SEMICOLON) /\ ~currTokenIs(p, EOF)

\* The condition of the scan loop of parseReturnStatement.
returnScanContinues(p) == ~currTokenIs(p, SEMICOLON)

\* for !p.currTokenIs(token.SEMICOLON) { p.nextTok() }: an iteration that
\* leaves the parser and the lexer as they were repeats forever.
RECURSIVE returnScan(_)
returnScan(p) ==
    IF ~returnScanContinues(p) THEN p
    ELSE IF nextTok(p) = p THEN [p EXCEPT !.hung = TRUE]
    ELSE returnScan(nextTok(p))

\* parseReturnStatement up to its scan loop.
parseReturnValue(p) ==
    LET done(value) ==
            R(value.p, [kind |-> "ReturnStatement", Token |-> p.currToken,
                        ReturnVal |-> value.node])
    IN done(parseExpression(nextTok(p), LOWEST))

parseReturnStatement(p) ==
    LET scanned(stmt) == R(returnScan(stmt.p), stmt.node)
    IN scanned(parseReturnValue(p))

parseExpressionStatement(p) ==
    LET done(expr) ==
            R(IF peekTokenIs(expr.p, SEMICOLON) THEN nextTok(expr.p)
              ELSE expr.p,
              [kind |-> "ExpressionStatement", Token |-> p.currToken,
               Expression |-> expr.node])
    IN done(parseExpression(p, LOWEST))

parseStatement(p) ==
    CASE p.currToken.Type = LET_ -> parseLetStatement(p)
      [] p.currToken.Type = RETURN -> parseReturnStatement(p)
      [] OTHER -> parseExpressionStatement(p)

\* The for loop of parseBlockStatement.
RECURSIVE parseBlockLoop(_, _)
parseBlockLoop(p, stmts) ==
    LET more(stmt) == parseBlockLoop(nextTok(stmt.p), Append(stmts, stmt.node))
    IN IF ~currTokenIs(p, RBRACE) /\ ~currTokenIs(p, EOF)
       THEN more(parseStatement(p))
       ELSE R(p, stmts)

\* A block that reports a missing `}` the way expectPeek would.
parseBlockStatementChecked(p) ==
    LET done(body) ==
            R(IF currTokenIs(body.p, EOF) THEN peekError(body.p, RBRACE)
              ELSE body.p,
              [kind |-> "BlockStatement", Token |-> p.currToken,
               Statements |-> body.node])
    IN done(parseBlockLoop(nextTok(p), <<>>))

parseBlockStatement(p) ==
    LET done(body) ==
            R(body.p, [kind |-> "BlockStatement", Token |-> p.currToken,
                       Statements |-> body.node])
    IN done(parseBlockLoop(nextTok(p), <<>>))

(***************************************************************************)
(* ParseProg as a state machine: one step per iteration of its loop.       *)
(***************************************************************************)
\* The parser held in the state variables.
Self == ParserOf(input, lexerPos, currToken, peekToken, errors)

Install(p) ==
    /\ lexerPos' = p.pos
    /\ currToken' = p.currToken
    /\ peekToken' = p.peekToken
    /\ errors' = p.errors

\* An iteration that forgets to advance.
progAdvanceStuck(p) == p

\* p.nextTok() at the end of an iteration of ParseProg's loop.
progAdvance(p) == nextTok(p)

\* One iteration: parseStatement, append, nextTok.  A statement whose parse
\* never returns leaves the program stuck inside the iteration.
ParseProgStep ==
    /\ pc = "loop"
    /\ currToken.Type # EOF
    /\ LET record(stmt) ==
               IF stmt.p.hung
               THEN /\ Install(stmt.p)
                    /\ pc' = "hung"
                    /\ UNCHANGED statements
               ELSE /\ Install(progAdvance(stmt.p))
                    /\ statements' = Append(statements, stmt.node)
                    /\ UNCHANGED pc
       IN record(parseStatement(Self))
    /\ UNCHANGED <<input, retStmt>>

\* The loop ends on end-of-input and ParseProg returns the program.
ParseProgReturn ==
    /\ pc = "loop"
    /\ currToken.Type = EOF
    /\ pc' = "done"
    /\ UNCHANGED <<input, lexerPos, currToken, peekToken, errors, statements,
                   retStmt>>

Next == ParseProgStep \/ ParseProgReturn

\* The state after New(lexer) on one of the given inputs, ParseProg entered.
InitOn(inputs) ==
    /\ input \in inputs
    /\ LET constructed(p) ==
               /\ lexerPos = p.pos
               /\ currToken = p.currToken
               /\ peekToken = p.peekToken
               /\ errors = p.errors
       IN constructed(New(input))
    /\ statements = <<>>
    /\ pc = "loop"
    /\ retStmt = Nil

\* All token sequences of length at most n over the tokens in A.
AllSeqs(A, n) == UNION {[1..k -> A] : k \in 0..n}

MaxLen == 4

Alphabet ==
    {IdTok("a"), IntTok(<<"1">>), T(LET_), T(ASSIGN), T(PLUS), T(LPAREN),
     T(RPAREN), T(LBRACE), T(FUNCTION), T(SEMICOLON), T(RETURN), T(COMMA),
     T(IF_)}

Init == InitOn(AllSeqs(Alphabet, MaxLen))

Spec == Init /\ [][Next]_vars

(***************************************************************************)
(* Walking the tree.                                                       *)
(***************************************************************************)
\* The child nodes of a node, in source order.
Children(n) ==
    CASE n.kind = "LetStatement" -> <<n.Name, n.Value>>
      [] n.kind = "ReturnStatement" -> <<n.ReturnVal>>
      [] n.kind = "ExpressionStatement" -> <<n.Expression>>
      [] n.kind = "BlockStatement" -> n.Statements
      [] n.kind = "PrefixExpression" -> <<n.Right>>
      [] n.kind = "InfixExpression" -> <<n.Left, n.Right>>
      [] n.kind = "IfExpression" ->
            <<n.Condition, n.Consequence, n.Alternative>>
      [] n.kind = "FunctionLiteral" -> n.Params.elems \o <<n.Body>>
      [] n.kind = "CallExpression" -> <<n.Function>> \o n.Args.elems
      [] OTHER -> <<>>

\* Some node of the tree is a call or a function literal whose argument or
\* parameter list was given up on a missing `)`.
RECURSIVE HasAbandonedList(_)
HasAbandonedList(n) ==
    \/ n.kind = "CallExpression" /\ n.Args.isNil
    \/ n.kind = "FunctionLiteral" /\ n.Params.isNil
    \/ \E i \in 1..Len(Children(n)) : HasAbandonedList(Children(n)[i])

\* Some function literal of the tree has a parameter that was not built from
\* an identifier token.
RECURSIVE HasNonIdentParam(_)
HasNonIdentParam(n) ==
    \/ /\ n.kind = "FunctionLiteral"
       /\ \E i \in 1..Len(n.Params.elems) : n.Params.elems[i].Token.Type # IDENT
    \/ \E i \in 1..Len(Children(n)) : HasNonIdentParam(Children(n)[i])

\* The two slots of the message of peekError.
IsPeekError(e) == e.fmt = "Unexpexted token %s, expected %s"
ReportedFound(e) == e.args[1]
ReportedExpected(e) == e.args[2]

\* C1: every entry of Program.Statements is a statement node that was
\* built: a statement whose parse returned no node adds no entry.
C1_NoFailedStatementRecorded ==
    \A i \in 1..Len(statements) : statements[i].kind # "nil"

\* C2: a construct whose mandatory-token check failed leaves no node in the
\* tree: no call and no function literal is kept after its `)` was missing.
C2_FailedConstructHasNoNode ==
    \A i \in 1..Len(statements) : ~HasAbandonedList(statements[i])

\* C3: when the first statement is a let whose identifier (or `=`) is
\* missing, the failed expectPeek(X) appends exactly one diagnostic, which
\* reports X as expected and the kind Y of the peek token as found.
KindAt(i) == IF i <= Len(input) THEN input[i].Type ELSE EOF
C3_PeekErrorReportsExpectedAndFound ==
    (Len(statements) = 1 /\ KindAt(1) = LET_) =>
        /\ KindAt(2) # IDENT =>
              /\ Len(errors) = 1
              /\ ReportedExpected(errors[1]) = IDENT
              /\ ReportedFound(errors[1]) = KindAt(2)
        /\ (KindAt(2) = IDENT /\ KindAt(3) # ASSIGN) =>
              /\ Len(errors) = 1
              /\ ReportedExpected(errors[1]) = ASSIGN
              /\ ReportedFound(errors[1]) = KindAt(3)


(***************************************************************************)
(* Termination of ParseProg on inputs without `return`.                    *)
(***************************************************************************)
InitNoReturn == InitOn(AllSeqs(Alphabet \ {T(RETURN)}, MaxLen))

SpecNoReturn == InitNoReturn /\ [][Next]_vars

HasKind(in, kind) == \E i \in 1..Len(in) : in[i].Type = kind

\* The tokens the loop still has to pass: those left in the lexer and the
\* two held by the parser.
TokensLeft ==
    (Len(input) + 1 - lexerPos)
    + (IF peekToken.Type # EOF THEN 1 ELSE 0)
    + (IF currToken.Type # EOF THEN 1 ELSE 0)

\* An input with a `(` that nothing closes.
UnclosedParen == HasKind(input, LPAREN) /\ ~HasKind(input, RPAREN)

\* C4: on every token sequence without `return`, ParseProg terminates with
\* the current token at end-of-input: no statement parse gets stuck, every
\* iteration of the loop passes at least one token, and the loop is left
\* only on end-of-input; an input with an unclosed `(` ends with a
\* diagnostic.
C4_ParseProgTerminates ==
    /\ [](pc # "hung")
    /\ [][pc = "loop" /\ pc' = "loop" => TokensLeft' < TokensLeft]_vars
    /\ [](pc = "loop" /\ TokensLeft = 0 => currToken.Type = EOF)
    /\ [](pc = "done" => currToken.Type = EOF)
    /\ [](pc = "done" /\ UnclosedParen => errors # <<>>)

\* `(1 + 2` has been parsed to the end.
C4_Witness ==
    /\ input = <<T(LPAREN), IntTok(<<"1">>), T(PLUS), IntTok(<<"1">>)>>
    /\ pc = "done"
    /\ errors # <<>>


(***************************************************************************)
(* parseReturnStatement of a top-level statement, one step per iteration   *)
(* of its scan loop.                                                       *)
(***************************************************************************)
\* The statement is built and its value parsed; the scan loop is next.
ReturnEnter ==
    /\ pc = "loop"
    /\ currToken.Type = RETURN
    /\ LET parsed(stmt) ==
               /\ Install(stmt.p)
               /\ IF stmt.p.hung
                  THEN pc' = "hung" /\ UNCHANGED retStmt
                  ELSE pc' = "scan" /\ retStmt' = stmt.node
       IN parsed(parseReturnValue(Self))
    /\ UNCHANGED <<input, statements>>

\* One iteration of for !p.currTokenIs(token.SEMICOLON) { p.nextTok() }.
ReturnScan ==
    /\ pc = "scan"
    /\ returnScanContinues(Self)
    /\ Install(nextTok(Self))
    /\ UNCHANGED <<input, statements, pc, retStmt>>

\* The loop condition fails and parseReturnStatement returns stmt.
ReturnExit ==
    /\ pc = "scan"
    /\ ~returnScanContinues(Self)
    /\ pc' = "returned"
    /\ UNCHANGED <<input, lexerPos, currToken, peekToken, errors, statements,
                   retStmt>>

\* Back in ParseProg: append and advance.
ReturnRecord ==
    /\ pc = "returned"
    /\ Install(progAdvance(Self))
    /\ statements' = Append(statements, retStmt)
    /\ pc' = "loop"
    /\ retStmt' = Nil
    /\ UNCHANGED input

\* An iteration of ParseProg's loop on any other statement.
OtherStatement == currToken.Type # RETURN /\ ParseProgStep

NextReturn ==
    \/ ReturnEnter
    \/ ReturnScan
    \/ ReturnExit
    \/ ReturnRecord
    \/ OtherStatement
    \/ ParseProgReturn

MaxRetLen == 4

ReturnAlphabet ==
    {IdTok("a"), T(SEMICOLON), T(LPAREN), T(RPAREN), T(LBRACE), T(RBRACE),
     T(FUNCTION), T(RETURN)}

\* return fn() { a; }   and   return fn() { a; };
ReturnOfFunction ==
    {<<T(RETURN), T(FUNCTION), T(LPAREN), T(RPAREN), T(LBRACE), IdTok("a"),
       T(SEMICOLON), T(RBRACE)>> \o tl : tl \in {<<>>, <<T(SEMICOLON)>>}}

InitReturn ==
    InitOn({<<T(RETURN)>> \o s : s \in AllSeqs(ReturnAlphabet, MaxRetLen)}
           \cup ReturnOfFunction)

\* The scan loop keeps iterating while its condition holds.
SpecReturn ==
    InitReturn /\ [][NextReturn]_vars
    /\ WF_vars(ReturnScan) /\ WF_vars(ReturnExit)

\* A `;` is the current token, the peek token or still in the lexer.
SemiAhead ==
    \/ currToken.Type = SEMICOLON
    \/ peekToken.Type = SEMICOLON
    \/ \E i \in lexerPos..Len(input) : input[i].Type = SEMICOLON

\* C5 (as stated): the scan of the first statement, a return, is stuck at
\* end-of-input only when no `;` occurs after the `return` keyword.
C5_ScanStuckOnlyWithoutSemicolon ==
    (pc = "scan" /\ statements = <<>> /\ currToken.Type = EOF)
        => ~HasKind(input, SEMICOLON)

\* C5 (amended): once the return value is parsed, parseReturnStatement
\* returns exactly when a `;` occurs at or after the token the value's parse
\* stopped on, and it returns with the current token being that `;`;
\* otherwise the scan runs forever, the current token staying at
\* end-of-input once it is reached.
C5_ReturnScanTermination ==
    /\ [](pc = "returned" => currToken.Type = SEMICOLON)
    /\ ((pc = "scan" /\ SemiAhead) ~> (pc = "returned"))
    /\ [][pc = "scan" /\ ~SemiAhead => pc' = "scan" /\ ~SemiAhead']_vars
    /\ [][pc = "scan" /\ currToken.Type = EOF
            => pc' = "scan" /\ currToken'.Type = EOF]_vars

\* `return fn() { a; };` has returned on the `;` after the `}`.
C5_Witness ==
    /\ input \in ReturnOfFunction
    /\ pc = "returned"
    /\ retStmt.ReturnVal.kind = "FunctionLiteral"


(***************************************************************************)
(* Chains of two binary operators: operand op1 operand op2 operand.        *)
(***************************************************************************)
BinaryOps ==
    {T(EQ), T(NOTEQ), T(LT), T(GT), T(PLUS), T(MINUS), T(SLASH), T(ASTERISK)}

Operands == {IdTok("a"), IdTok("b"), IntTok(<<"1">>)}

Chains ==
    {<<a, op1, b, op2, c>> \o tl :
        a \in Operands, b \in Operands, c \in Operands,
        op1 \in BinaryOps, op2 \in BinaryOps,
        tl \in {<<>>, <<T(SEMICOLON)>>}}

InitChain == InitOn(Chains)

SpecChain == InitChain /\ [][Next]_vars

\* The expression of the first statement of the program.
ChainExpr == statements[1].Expression

\* (a op1 b) op2 c
LeftAssociated(e) ==
    /\ e.kind = "InfixExpression"
    /\ e.Token = input[4]
    /\ e.Operator = input[4].Literal
    /\ e.Left.kind = "InfixExpression"
    /\ e.Left.Token = input[2]
    /\ e.Left.Operator = input[2].Literal
    /\ e.Left.Left.kind \in {"Identifier", "IntegerLiteral"}
    /\ e.Left.Left.Token = input[1]
    /\ e.Left.Right.kind \in {"Identifier", "IntegerLiteral"}
    /\ e.Left.Right.Token = input[3]
    /\ e.Right.kind \in {"Identifier", "IntegerLiteral"}
    /\ e.Right.Token = input[5]

\* a op1 (b op2 c)
RightAssociated(e) ==
    /\ e.kind = "InfixExpression"
    /\ e.Token = input[2]
    /\ e.Operator = input[2].Literal
    /\ e.Left.kind \in {"Identifier", "IntegerLiteral"}
    /\ e.Left.Token = input[1]
    /\ e.Right.kind = "InfixExpression"
    /\ e.Right.Token = input[4]
    /\ e.Right.Operator = input[4].Literal
    /\ e.Right.Left.kind \in {"Identifier", "IntegerLiteral"}
    /\ e.Right.Left.Token = input[3]
    /\ e.Right.Right.kind \in {"Identifier", "IntegerLiteral"}
    /\ e.Right.Right.Token = input[5]

\* The binary operators by binding strength, weakest first.
OperatorLevels ==
    <<{EQ, NOTEQ}, {LT, GT}, {PLUS, MINUS}, {SLASH, ASTERISK}>>

Level(tok) ==
    CHOOSE i \in DOMAIN OperatorLevels : tok.Type \in OperatorLevels[i]

\* The chain has been parsed into the program's only statement.
ChainParsed ==
    /\ pc = "done"
    /\ Len(statements) = 1
    /\ statements[1].kind = "ExpressionStatement"

\* C6 (as stated): a chain of two operators of the same precedence level
\* parses right-associated when both operators are `+` and left-associated
\* in every other case.
C6_RightAssociatedOnlyWhenBothPlus ==
    (pc = "done" /\ Level(input[2]) = Level(input[4]))
        => /\ ChainParsed
           /\ IF input[2].Type = PLUS /\ input[4].Type = PLUS
              THEN RightAssociated(ChainExpr)
              ELSE LeftAssociated(ChainExpr)

\* C6 (amended): a chain of two operators of the same precedence level
\* parses right-associated, a op1 (b op2 c), exactly when the first operator
\* is `+` (so `a + b + c` and `a + b - c`), and left-associated,
\* (a op1 b) op2 c, in every other case.
C6_RightAssociatedWhenFirstIsPlus ==
    (pc = "done" /\ Level(input[2]) = Level(input[4]))
        => /\ ChainParsed
           /\ IF input[2].Type = PLUS
              THEN RightAssociated(ChainExpr) /\ ~LeftAssociated(ChainExpr)
              ELSE LeftAssociated(ChainExpr) /\ ~RightAssociated(ChainExpr)

\* a + b - c has been parsed as a + (b - c).
C6_Witness ==
    /\ ChainParsed
    /\ input[2].Type = PLUS
    /\ input[4].Type = MINUS
    /\ RightAssociated(ChainExpr)

\* C7: when the two operators of a chain are on different precedence
\* levels, the one on the higher level binds tighter in both orders:
\* a hi b lo c is (a hi b) lo c and a lo b hi c is a lo (b hi c), also when
\* lo is `+`.
C7_HigherPrecedenceBindsTighter ==
    /\ (pc = "done" /\ Level(input[2]) > Level(input[4]))
           => ChainParsed /\ LeftAssociated(ChainExpr)
    /\ (pc = "done" /\ Level(input[2]) < Level(input[4]))
           => ChainParsed /\ RightAssociated(ChainExpr)

\* a * b + c has been parsed as (a * b) + c.
C7_Witness ==
    /\ ChainParsed
    /\ input[2].Type = ASTERISK
    /\ input[4].Type = PLUS
    /\ LeftAssociated(ChainExpr)


(***************************************************************************)
(* Function literals with arbitrary tokens between `(` and `)`.            *)
(***************************************************************************)
MaxParamLen == 3

ParamAlphabet == {IdTok("a"), IdTok("b"), IntTok(<<"1">>), T(COMMA)}

\* fn ( ... ) { }   and the same cut after the parameter tokens
FnInputs ==
    {<<T(FUNCTION), T(LPAREN)>> \o s \o tl :
        s \in AllSeqs(ParamAlphabet, MaxParamLen),
        tl \in {<<>>, <<T(RPAREN), T(LBRACE), T(RBRACE)>>}}

InitFn == InitOn(FnInputs)

SpecFn == InitFn /\ [][Next]_vars

\* C9: every parameter of every function literal of the program is an
\* Identifier built from a token of kind identifier; a token of another kind
\* in a parameter position is not added to the parameter list.
C9_ParamsBuiltFromIdentifiers ==
    \A i \in 1..Len(statements) : ~HasNonIdentParam(statements[i])

(***************************************************************************)
(* if and fn expressions whose last block is never closed.                 *)
(***************************************************************************)
MaxBody == 1

\* Statements of a block, each terminated by `;`.
BodyStatements ==
    {<<IdTok("a"), T(SEMICOLON)>>,
     <<IntTok(<<"1">>), T(PLUS), IdTok("a"), T(SEMICOLON)>>,
     <<T(LET_), IdTok("a"), T(ASSIGN), IntTok(<<"1">>), T(SEMICOLON)>>,
     <<T(RETURN), IdTok("a"), T(SEMICOLON)>>}

\* A last statement without its `;`.
OpenStatements ==
    {<<>>,
     <<IdTok("a")>>,
     <<IntTok(<<"1">>), T(PLUS), IdTok("a")>>,
     <<T(LET_), IdTok("a"), T(ASSIGN), IntTok(<<"1">>)>>}

RECURSIVE Bodies(_)
Bodies(n) ==
    IF n = 0 THEN {<<>>}
    ELSE Bodies(n - 1)
         \cup {b \o st : b \in Bodies(n - 1), st \in BodyStatements}

\* Everything up to and including the `{` of the block left open.
BlockHeads ==
    {<<T(IF_), T(LPAREN), IdTok("a"), T(RPAREN), T(LBRACE)>>,
     <<T(IF_), T(LPAREN), IdTok("a"), T(RPAREN), T(LBRACE), IdTok("a"),
       T(RBRACE), T(ELSE_), T(LBRACE)>>,
     <<T(FUNCTION), T(LPAREN), T(RPAREN), T(LBRACE)>>,
     <<T(FUNCTION), T(LPAREN), IdTok("a"), T(RPAREN), T(LBRACE)>>}

OpenBlockInputs ==
    {w \o h1 \o h2 \o b \o st :
        w \in {<<>>, <<T(LET_), IdTok("a"), T(ASSIGN)>>},
        h1 \in BlockHeads \cup {<<>>}, h2 \in BlockHeads,
        b \in Bodies(MaxBody), st \in OpenStatements}

InitOpenBlock == InitOn(OpenBlockInputs)

SpecOpenBlock == InitOpenBlock /\ [][Next]_vars

\* The innermost block of a node that ends where the node ends.
RECURSIVE OpenBlock(_)
OpenBlock(n) ==
    LET inner(b) == IF b.kind = "BlockStatement" THEN b ELSE n
    IN CASE n.kind = "ExpressionStatement" -> OpenBlock(n.Expression)
         [] n.kind = "LetStatement" -> OpenBlock(n.Value)
         [] n.kind = "FunctionLiteral" -> OpenBlock(n.Body)
         [] n.kind = "IfExpression" ->
               IF n.Alternative.kind = "BlockStatement"
               THEN OpenBlock(n.Alternative) ELSE OpenBlock(n.Consequence)
         [] n.kind = "BlockStatement" ->
               IF Len(n.Statements) = 0 THEN n
               ELSE inner(OpenBlock(n.Statements[Len(n.Statements)]))
         [] OTHER -> Nil

\* The position of the last `{` of the input.
LastBrace ==
    CHOOSE i \in 1..Len(input) :
        /\ input[i].Type = LBRACE
        /\ \A j \in (i + 1)..Len(input) : input[j].Type # LBRACE

\* The statements written after the last `{`.
StatementsWritten ==
    Cardinality({j \in (LastBrace + 1)..Len(input) :
                    input[j].Type = SEMICOLON})
    + (IF input[Len(input)].Type \in {SEMICOLON, LBRACE} THEN 0 ELSE 1)

\* C10: a block that meets end-of-input before its `}` returns the
\* statements parsed so far, the parse terminates and no diagnostic is
\* recorded for the missing `}`: Errors() stays empty.
C10_UnterminatedBlockIsSilent ==
    /\ errors = <<>>
    /\ pc # "hung"
    /\ pc = "done" =>
          /\ currToken.Type = EOF
          /\ Len(statements) = 1
          /\ OpenBlock(statements[1]).kind = "BlockStatement"
          /\ Len(OpenBlock(statements[1]).Statements) = StatementsWritten
          /\ \A i \in 1..StatementsWritten :
                OpenBlock(statements[1]).Statements[i].kind # "nil"

\* if (a) { a   has been parsed into a one-statement consequence.
C10_Witness ==
    /\ input = <<T(IF_), T(LPAREN), IdTok("a"), T(RPAREN), T(LBRACE),
                 IdTok("a")>>
    /\ pc = "done"
    /\ errors = <<>>
    /\ Len(statements[1].Expression.Consequence.Statements) = 1


(***************************************************************************)
(* Syntactically valid programs: statements terminated by `;` over         *)
(* expressions with balanced delimiters.                                   *)
(***************************************************************************)
MaxDepth == 1

Atoms ==
    {<<IdTok("a")>>, <<IntTok(<<"1">>)>>, <<IntTok(<<"0", "7">>)>>,
     <<IntTok(<<"0", "8">>)>>, <<T(TRUE_)>>}

\* The expressions with one operator, group, if, fn or call around e.
Around(e) ==
    {<<T(MINUS)>> \o e, <<T(BANG)>> \o e,
     <<T(LPAREN)>> \o e \o <<T(RPAREN)>>,
     <<T(IF_), T(LPAREN)>> \o e \o <<T(RPAREN), T(LBRACE)>> \o e
        \o <<T(SEMICOLON), T(RBRACE)>>,
     <<T(IF_), T(LPAREN), IdTok("a"), T(RPAREN), T(LBRACE), IdTok("a"),
       T(RBRACE), T(ELSE_), T(LBRACE)>> \o e \o <<T(SEMICOLON), T(RBRACE)>>,
     <<T(FUNCTION), T(LPAREN), T(RPAREN), T(LBRACE)>> \o e
        \o <<T(SEMICOLON), T(RBRACE)>>,
     <<T(FUNCTION), T(LPAREN), IdTok("a"), T(COMMA), IdTok("b"), T(RPAREN),
       T(LBRACE), T(RETURN)>> \o e \o <<T(SEMICOLON), T(RBRACE)>>,
     e \o <<T(LPAREN), T(RPAREN)>>,
     <<IdTok("a"), T(LPAREN)>> \o e \o <<T(RPAREN)>>,
     <<IdTok("a"), T(LPAREN), IdTok("a"), T(COMMA)>> \o e \o <<T(RPAREN)>>}
    \cup {e \o <<op, IdTok("a")>> : op \in BinaryOps}
    \cup {<<IdTok("a"), op>> \o e : op \in BinaryOps}

RECURSIVE Exprs(_)
Exprs(d) ==
    LET grown(E) == E \cup UNION {Around(e) : e \in E}
    IN IF d = 0 THEN Atoms ELSE grown(Exprs(d - 1))

\* The let, return and expression statements of the expressions in E.
StatementsOf(E) ==
    UNION {{<<T(LET_), IdTok("a"), T(ASSIGN)>> \o e \o <<T(SEMICOLON)>>,
            <<T(RETURN)>> \o e \o <<T(SEMICOLON)>>,
            e \o <<T(SEMICOLON)>>} : e \in E}

ValidPrograms ==
    {s \o t : s \in StatementsOf(Exprs(MaxDepth)),
              t \in {<<>>} \cup StatementsOf({<<IdTok("a")>>})}

InitValid == InitOn(ValidPrograms)

SpecValid == InitValid /\ [][Next]_vars

\* Every integer literal of the input is one strconv.ParseInt accepts.
LiteralsParse ==
    \A i \in 1..Len(input) :
        input[i].Type = INT => ParseInt(input[i].Literal).ok

\* C8 (as stated): after ParseProg on a syntactically valid program whose
\* integer literals are in range, Errors() is empty.
C8_ValidProgramHasNoErrors == pc = "done" => errors = <<>>

\* C8 (amended): on a syntactically valid program whose integer literals
\* are ones strconv.ParseInt accepts in base 0 (in range and, after a
\* leading 0, made of the digits 0..7 only), ParseProg terminates and
\* Errors() is empty.
C8_ValidProgramWithParsableLiterals ==
    LiteralsParse => errors = <<>> /\ pc # "hung"

\* A program with an if expression and the literal 07 parsed without a
\* diagnostic.
C8_Witness ==
    /\ pc = "done"
    /\ errors = <<>>
    /\ HasKind(input, IF_)
    /\ \E i \in 1..Len(input) : input[i] = IntTok(<<"0", "7">>)
    /\ Len(statements) = 2

====
